---- MODULE Spec2Model ----
(***************************************************************************)
(* PDSteeringEngine (infer/proportional_derivative_steering_engine.py):    *)
(* the outlier-trimming line fit and the PD steering computation.          *)
(*                                                                         *)
(* Numbers are exact rationals <<numerator, denominator>> in lowest terms  *)
(* with a positive denominator; the Python code computes in floats (true   *)
(* division is imported from __future__).  Points are <<y, x>> pairs of    *)
(* integers, lines are <<intercept, slope>> pairs of rationals.  Python's  *)
(* None is the empty tuple.  Rounding, and with it ties or threshold       *)
(* equalities that floats would break, is outside the model.               *)
(***************************************************************************)
EXTENDS Integers, Sequences

None == <<>>

(***************************************************************************)
(* Exact rational arithmetic.                                              *)
(***************************************************************************)
IAbs(i) == IF i < 0 THEN -i ELSE i

RECURSIVE GCD(_, _)
GCD(a, b) == IF b = 0 THEN a ELSE GCD(b, a % b)

RNorm(n, d) ==
    LET g == GCD(IAbs(n), IAbs(d))
        s == IF d < 0 THEN -1 ELSE 1
    IN  <<(s * n) \div g, (s * d) \div g>>

RInt(i) == <<i, 1>>
RAdd(a, b) == RNorm(a[1] * b[2] + b[1] * a[2], a[2] * b[2])
RSub(a, b) == RNorm(a[1] * b[2] - b[1] * a[2], a[2] * b[2])
RMul(a, b) == RNorm(a[1] * b[1], a[2] * b[2])
RNeg(a) == <<-a[1], a[2]>>
RAbs(a) == <<IAbs(a[1]), a[2]>>
RLess(a, b) == a[1] * b[2] < b[1] * a[2]
RLeq(a, b) == a[1] * b[2] <= b[1] * a[2]

(***************************************************************************)
(* Python 2 ordering: None compares smaller than every number, so          *)
(* "number > None" is true and "None > number" is false.                   *)
(***************************************************************************)
PyGreater(a, b) ==
    IF a = None THEN FALSE
    ELSE IF b = None THEN TRUE
    ELSE RLess(b, a)

(***************************************************************************)
(* line_of_best_fit, imported from infer/line_of_best_fit.py and modelled  *)
(* from its contract: a pure function giving the least-squares line        *)
(* x = slope * y + intercept as <<intercept, slope>>.  When every point    *)
(* has the same vertical coordinate c the least-squares solution is not    *)
(* unique; the minimum-norm solution of the column-scaled system is taken, *)
(* which predicts the mean of the horizontal coordinates at c.             *)
(*                                                                         *)
(* The contract covers lists of at least 2 points only.  What the function *)
(* does below that is not defined, so it is a choice made once per engine  *)
(* (the function is pure, it answers the same list the same way): it       *)
(* raises on every list shorter than 2, or raises on the empty list only,  *)
(* or always returns.  When it returns, a single point gets a line through *)
(* it and the empty list gets the line x = 0.                              *)
(***************************************************************************)
VARIABLE short_fit

ShortFits == {"raises", "raises_on_empty", "returns"}

RECURSIVE SeqSum(_)
SeqSum(s) == IF s = <<>> THEN 0 ELSE Head(s) + SeqSum(Tail(s))

line_of_best_fit_raises(points) ==
    \/ Len(points) = 0 /\ short_fit # "returns"
    \/ Len(points) = 1 /\ short_fit = "raises"

line_of_best_fit(points) ==
    LET n == Len(points)
        Sy == SeqSum([i \in 1..n |-> points[i][1]])
        Sx == SeqSum([i \in 1..n |-> points[i][2]])
        Syx == SeqSum([i \in 1..n |-> points[i][1] * points[i][2]])
        Syy == SeqSum([i \in 1..n |-> points[i][1] * points[i][1]])
        D == n * Syy - Sy * Sy
        A == n * Syx - Sy * Sx
        c == points[1][1]
    IN  IF n = 0 THEN <<RInt(0), RInt(0)>>
        ELSE IF D # 0 THEN <<RNorm(Sx * D - A * Sy, n * D), RNorm(A, D)>>
        ELSE IF c = 0 THEN <<RNorm(Sx, n), RInt(0)>>
        ELSE <<RNorm(Sx, 2 * n), RNorm(Sx, 2 * n * c)>>

(***************************************************************************)
(* Bounds of the model and the inputs drawn from them.                     *)
(***************************************************************************)
MaxLen == 3
MaxBacklash == 1

Points == {<<0, 0>>, <<1, 0>>, <<1, 3>>, <<2, 0>>}

ExamplePoints == <<<<0, 0>>, <<1, 0>>, <<2, 0>>, <<3, 100>>>>
ExampleConfig == <<1, 0, 5, 0, 2, 50>>

PointLists == (UNION {[1..n -> Points] : n \in 0..MaxLen}) \cup {ExamplePoints}

\* <<proportional_multiplier, derivative_multiplier, max_distance_from_line,
\*   ideal_center_x, center_y, steering_limit>>: __init__ stores whatever it
\* is given, negative values included.
Configs ==
    { ExampleConfig,
      <<1, 1, 1, 1, 1, 1>>,
      <<2, 1, 0, 0, 0, 0>>,
      <<1, 2, -1, 0, 1, 1>>,
      <<-1, -1, 2, 1, 0, -1>> }

BacklashOffsets == {-MaxBacklash, 0, MaxBacklash}

VARIABLES
    proportional_multiplier, derivative_multiplier, max_distance_from_line,
    ideal_center_x, center_y, steering_limit,
    center_line_of_best_fit,    \* None or <<intercept, slope>>
    errors,                     \* None or <<proportional_error, slope>>
    backlash_state,             \* the compensator's state
    pc,                         \* "idle", or "loop" inside remove_outliers
    caller,                     \* "compute" or "direct": who called remove_outliers
    center_points,              \* the argument of the current or latest call
    positions,                  \* remove_outliers' working copy
    previous_num_positions,
    result,                     \* what the latest call returned
    passes,                     \* loop bodies (re-fit and scan) completed by the call
    fit_below_two,              \* the call gave line_of_best_fit fewer than 2 points
    process_calls,              \* process() invocations of the current call
    backlash_input,             \* the value given to process()
    backlash_output             \* the value process() returned

tuning == <<proportional_multiplier, derivative_multiplier, max_distance_from_line,
            ideal_center_x, center_y, steering_limit>>
engine == <<center_line_of_best_fit, errors, backlash_state>>
frame == <<pc, caller, center_points, positions, previous_num_positions>>
ghost == <<passes, fit_below_two, process_calls, backlash_input, backlash_output>>
fixed == <<tuning, short_fit>>
vars == <<fixed, engine, frame, result, ghost>>

\* previous_num_positions = None, which differs from every length
NoCount == -1

Returned(kind, value) == [kind |-> kind, value |-> value]

(***************************************************************************)
(* BacklashCompensator, imported from infer/backlash_compensator.py and    *)
(* modelled from its contract: a stateful transform, otherwise opaque. Its *)
(* state is the offset it last applied; process(value) may apply any       *)
(* offset, the identity compensator being the one that always applies 0.   *)
(***************************************************************************)
BacklashInit == 0
BacklashProcess(value, offset) == RAdd(value, RInt(offset))

(***************************************************************************)
(* remove_outliers, lines 110-128: one scan of the working list.           *)
(***************************************************************************)
PredictedX(line, y_position) == RAdd(RMul(line[2], RInt(y_position)), line[1])

CurrentDistance(line, position) ==
    RAbs(RSub(PredictedX(line, position[1]), RInt(position[2])))

IsGreaterFlipped(current_distance, greatest_distance_value) ==
    PyGreater(greatest_distance_value, current_distance)

IsGreaterOrEqual(current_distance, greatest_distance_value) ==
    ~PyGreater(greatest_distance_value, current_distance)

IsGreater(current_distance, greatest_distance_value) ==
    PyGreater(current_distance, greatest_distance_value)

\* <<greatest_distance_value, greatest_distance_position>> after the for loop
RECURSIVE Scan(_, _, _, _, _)
Scan(ps, i, line, greatest_distance_value, greatest_distance_position) ==
    IF i > Len(ps) THEN <<greatest_distance_value, greatest_distance_position>>
    ELSE LET current_distance == CurrentDistance(line, ps[i])
         IN  IF IsGreater(current_distance, greatest_distance_value)
             THEN Scan(ps, i + 1, line, current_distance, ps[i])
             ELSE Scan(ps, i + 1, line, greatest_distance_value, greatest_distance_position)

IsOutlierOrEqual(greatest_distance_value, max_distance) ==
    ~PyGreater(RInt(max_distance), greatest_distance_value)

IsOutlier(greatest_distance_value, max_distance) ==
    PyGreater(greatest_distance_value, RInt(max_distance))

\* the while condition, line 97
LoopContinues(num_positions, previous) == num_positions # previous

\* list.remove: drops the first element equal to position
RECURSIVE ListRemove(_, _)
ListRemove(ps, position) ==
    IF ps = <<>> THEN <<>>
    ELSE IF Head(ps) = position THEN Tail(ps)
    ELSE <<Head(ps)>> \o ListRemove(Tail(ps), position)

\* the working list after one loop body, given the line fitted in it
AfterPass(ps, line, max_distance) ==
    LET greatest == Scan(ps, 1, line, None, None)
    IN  IF IsOutlier(greatest[1], max_distance)
        THEN ListRemove(ps, greatest[2])
        ELSE ps

\* remove_outliers as a function: the returned list, or None when
\* line_of_best_fit raises on the way
RECURSIVE RemoveOutliersResult(_, _)
RemoveOutliersResult(ps, max_distance) ==
    IF line_of_best_fit_raises(ps) THEN None
    ELSE LET next == AfterPass(ps, line_of_best_fit(ps), max_distance)
         IN  IF Len(next) = Len(ps) THEN <<ps>>
             ELSE RemoveOutliersResult(next, max_distance)

(***************************************************************************)
(* compute_steering_angle, lines 57-77.                                    *)
(***************************************************************************)
CenterX(line, cy) == RAdd(RMul(RInt(cy), line[2]), line[1])

ProportionalError(line, icx, cy) == RSub(RInt(icx), CenterX(line, cy))

RawSteeringSwapped(proportional_error, line_slope, pm, dm) ==
    RAdd(RMul(proportional_error, RInt(dm)), RMul(line_slope, RInt(pm)))

RawSteering(proportional_error, line_slope, pm, dm) ==
    RAdd(RMul(proportional_error, RInt(pm)), RMul(line_slope, RInt(dm)))

ClampUpperOnly(steering_angle, limit) ==
    IF RLess(RInt(limit), steering_angle) THEN RInt(limit) ELSE steering_angle

Clamp(steering_angle, limit) ==
    IF RLess(RInt(limit), steering_angle) THEN RInt(limit)
    ELSE IF RLess(steering_angle, RInt(-limit)) THEN RInt(-limit)
    ELSE steering_angle

TooFewPointsBelowOne(points) == Len(points) < 1

TooFewPoints(points) == Len(points) < 2

(***************************************************************************)
(* The engine after __init__.                                              *)
(***************************************************************************)
\* __init__, lines 20-41, and the class attributes of lines 14 and 17
Construct(pm, dm, max_distance, icx, cy, limit) ==
    /\ proportional_multiplier = pm
    /\ derivative_multiplier = dm
    /\ max_distance_from_line = max_distance
    /\ ideal_center_x = icx
    /\ center_y = cy
    /\ steering_limit = limit
    /\ center_line_of_best_fit = None
    /\ errors = None
    /\ backlash_state = BacklashInit

Init ==
    /\ \E c \in Configs : Construct(c[1], c[2], c[3], c[4], c[5], c[6])
    /\ short_fit \in ShortFits
    /\ pc = "idle"
    /\ caller = "compute"
    /\ center_points = <<>>
    /\ positions = <<>>
    /\ previous_num_positions = NoCount
    /\ result = Returned("NoCall", <<>>)
    /\ passes = 0
    /\ fit_below_two = FALSE
    /\ process_calls = 0
    /\ backlash_input = None
    /\ backlash_output = None

\* compute_steering_angle, lines 47-48: too few points
ComputeInsufficient(points) ==
    /\ pc = "idle"
    /\ TooFewPoints(points)
    /\ center_points' = points
    /\ caller' = "compute"
    /\ result' = Returned("None", <<>>)
    /\ passes' = 0
    /\ fit_below_two' = FALSE
    /\ process_calls' = 0
    /\ backlash_input' = None
    /\ backlash_output' = None
    /\ UNCHANGED <<fixed, engine, pc, positions, previous_num_positions>>

\* entry into remove_outliers, lines 87-94
EnterRemoveOutliers(points, who) ==
    /\ center_points' = points
    /\ caller' = who
    /\ positions' = points
    /\ previous_num_positions' = NoCount
    /\ pc' = "loop"
    /\ result' = Returned("Running", <<>>)
    /\ passes' = 0
    /\ fit_below_two' = FALSE
    /\ process_calls' = 0
    /\ backlash_input' = None
    /\ backlash_output' = None
    /\ UNCHANGED <<fixed, engine>>

\* compute_steering_angle, lines 47-51, with at least two points
ComputeBegin(points) ==
    /\ pc = "idle"
    /\ ~TooFewPoints(points)
    /\ EnterRemoveOutliers(points, "compute")

\* remove_outliers called by an external script
RemoveOutliersBegin(points) ==
    /\ pc = "idle"
    /\ EnterRemoveOutliers(points, "direct")

\* one loop body, lines 97-128
Pass ==
    /\ pc = "loop"
    /\ LoopContinues(Len(positions), previous_num_positions)
    /\ ~line_of_best_fit_raises(positions)
    /\ previous_num_positions' = Len(positions)
    /\ center_line_of_best_fit' = line_of_best_fit(positions)
    /\ positions' = AfterPass(positions, center_line_of_best_fit', max_distance_from_line)
    /\ passes' = passes + 1
    /\ fit_below_two' = (fit_below_two \/ Len(positions) < 2)
    /\ UNCHANGED <<fixed, errors, backlash_state, pc, caller, center_points, result,
                   process_calls, backlash_input, backlash_output>>

\* a loop body whose line_of_best_fit raises, lines 97-103: the call ends
PassRaises ==
    /\ pc = "loop"
    /\ LoopContinues(Len(positions), previous_num_positions)
    /\ line_of_best_fit_raises(positions)
    /\ previous_num_positions' = Len(positions)
    /\ fit_below_two' = (fit_below_two \/ Len(positions) < 2)
    /\ pc' = "idle"
    /\ result' = Returned("Raised", <<>>)
    /\ UNCHANGED <<fixed, engine, caller, center_points, positions, passes,
                   process_calls, backlash_input, backlash_output>>

\* remove_outliers, lines 131-134, returning to an external script
RemoveOutliersReturn ==
    /\ pc = "loop"
    /\ caller = "direct"
    /\ ~LoopContinues(Len(positions), previous_num_positions)
    /\ center_line_of_best_fit' = line_of_best_fit(positions)
    /\ fit_below_two' = (fit_below_two \/ Len(positions) < 2)
    /\ pc' = "idle"
    /\ result' = Returned("Positions", positions)
    /\ UNCHANGED <<fixed, errors, backlash_state, caller, center_points, positions,
                   previous_num_positions, passes, process_calls, backlash_input,
                   backlash_output>>

\* remove_outliers, lines 131-134, then compute_steering_angle, lines 54-80
ComputeFinish(offset) ==
    /\ pc = "loop"
    /\ caller = "compute"
    /\ ~LoopContinues(Len(positions), previous_num_positions)
    /\ LET line == line_of_best_fit(positions)
           line_slope == line[2]
           proportional_error == ProportionalError(line, ideal_center_x, center_y)
           raw == RawSteering(proportional_error, line_slope,
                              proportional_multiplier, derivative_multiplier)
           compensated == BacklashProcess(raw, offset)
       IN  /\ center_line_of_best_fit' = line
           /\ errors' = <<proportional_error, line_slope>>
           /\ backlash_input' = raw
           /\ backlash_output' = compensated
           /\ result' = Returned("Steering",
                    <<Clamp(compensated, steering_limit), proportional_error, line_slope>>)
    /\ backlash_state' = offset
    /\ process_calls' = process_calls + 1
    /\ fit_below_two' = (fit_below_two \/ Len(positions) < 2)
    /\ pc' = "idle"
    /\ UNCHANGED <<fixed, caller, center_points, positions, previous_num_positions,
                   passes>>

\* the control loop: one compute_steering_angle call per cycle
Next ==
    \/ \E points \in PointLists : ComputeInsufficient(points)
    \/ \E points \in PointLists : ComputeBegin(points)
    \/ Pass
    \/ PassRaises
    \/ \E offset \in BacklashOffsets : ComputeFinish(offset)

Spec == Init /\ [][Next]_vars

\* an external script calling remove_outliers on the engine
NextTrim ==
    \/ \E points \in PointLists : RemoveOutliersBegin(points)
    \/ Pass
    \/ PassRaises
    \/ RemoveOutliersReturn

SpecTrim == Init /\ [][NextTrim]_vars


(***************************************************************************)
(* Helpers of the properties, stated without the scan of remove_outliers.  *)
(***************************************************************************)
RemoveAt(ps, k) == [i \in 1..(Len(ps) - 1) |-> IF i < k THEN ps[i] ELSE ps[i + 1]]

\* the residuals of ps against line have a greatest element at index k,
\* and no earlier index attains it
IsEarliestGreatest(ps, line, k) ==
    /\ k \in 1..Len(ps)
    /\ \A j \in 1..Len(ps) :
          RLeq(CurrentDistance(line, ps[j]), CurrentDistance(line, ps[k]))
    /\ \A j \in 1..(k - 1) :
          RLess(CurrentDistance(line, ps[j]), CurrentDistance(line, ps[k]))

Exceeds(distance, max_distance) == RLess(RInt(max_distance), distance)

\* sub is ps with some elements dropped, the order kept
RECURSIVE IsSubsequence(_, _)
IsSubsequence(sub, ps) ==
    IF sub = <<>> THEN TRUE
    ELSE IF ps = <<>> THEN FALSE
    ELSE IF Head(sub) = Head(ps) THEN IsSubsequence(Tail(sub), Tail(ps))
    ELSE IsSubsequence(sub, Tail(ps))

\* every point of ps lies on the line fitted through ps
OnOneLine(ps) ==
    \A i \in 1..Len(ps) : CurrentDistance(line_of_best_fit(ps), ps[i]) = RInt(0)

SteeringReturned == result.kind = "Steering"
PositionsReturned == result.kind = "Positions"

\* C1: with a steering limit L >= 0, the angle returned for the value v that
\* process() gave is L when v > L, -L when v < -L and v otherwise, so it
\* lies in [-L, +L].
C1_AngleIsClamped ==
    (SteeringReturned /\ steering_limit >= 0) =>
        LET v == backlash_output
            L == RInt(steering_limit)
            angle == result.value[1]
        IN  /\ RLess(L, v) => angle = L
            /\ RLess(v, RNeg(L)) => angle = RNeg(L)
            /\ (RLeq(RNeg(L), v) /\ RLeq(v, L)) => angle = v
            /\ RLeq(RNeg(L), angle) /\ RLeq(angle, L)

C1_Witness ==
    /\ SteeringReturned
    /\ steering_limit >= 0
    /\ RLess(RInt(steering_limit), backlash_output)
    /\ result.value[1] = RInt(steering_limit)

\* C2: a compute_steering_angle call with 0 or 1 points returns None, which
\* is no steering tuple, leaves center_line_of_best_fit, errors, the
\* compensator and the tuning constants as they were, and does not invoke
\* process().
C2_InsufficientLeavesState ==
    [][(pc = "idle" /\ Len(center_points') < 2) =>
          /\ result'.kind = "None"
          /\ result'.kind # "Steering"
          /\ pc' = "idle"
          /\ engine' = engine
          /\ tuning' = tuning
          /\ process_calls' = 0]_vars

C2_Witness ==
    /\ result.kind = "None"
    /\ Len(center_points) = 1
    /\ center_line_of_best_fit # None
    /\ errors # None
    /\ backlash_state # BacklashInit

\* C3: a call with at least 2 points that returns passes to process(), once,
\* raw = (ideal_center_x - (slope * center_y + intercept)) * proportional_multiplier
\* + slope * derivative_multiplier for the line the fitter stored, returns the
\* clamped output with the proportional error and the slope, and stores that
\* same pair in errors.
C3_RawAndDiagnostics ==
    SteeringReturned =>
        LET intercept == center_line_of_best_fit[1]
            slope == center_line_of_best_fit[2]
            proportionalError ==
                RSub(RInt(ideal_center_x), RAdd(RMul(slope, RInt(center_y)), intercept))
            raw == RAdd(RMul(proportionalError, RInt(proportional_multiplier)),
                        RMul(slope, RInt(derivative_multiplier)))
            trimmed == RemoveOutliersResult(center_points, max_distance_from_line)
        IN  /\ Len(center_points) >= 2
            /\ trimmed # None
            /\ center_line_of_best_fit = line_of_best_fit(trimmed[1])
            /\ backlash_input = raw
            /\ process_calls = 1
            /\ \E offset \in BacklashOffsets : backlash_output = BacklashProcess(raw, offset)
            /\ result.value = <<Clamp(backlash_output, steering_limit), proportionalError, slope>>
            /\ errors = <<proportionalError, slope>>

C3_Witness ==
    /\ SteeringReturned
    /\ proportional_multiplier # derivative_multiplier
    /\ errors[1] # RInt(0)
    /\ errors[2] # RInt(0)
    /\ Len(positions) < Len(center_points)

\* the example call of C4 has returned, the compensator having acted as the identity
ExampleReturned ==
    /\ tuning = ExampleConfig
    /\ center_points = ExamplePoints
    /\ SteeringReturned
    /\ backlash_output = backlash_input

\* C4 as stated: the example ends with the line x = 0, only (3,100) trimmed,
\* proportional error 0 and steering angle 0.
C4_ExampleAsStated ==
    ExampleReturned =>
        /\ center_line_of_best_fit = <<RInt(0), RInt(0)>>
        /\ positions = <<<<0, 0>>, <<1, 0>>, <<2, 0>>>>
        /\ errors = <<RInt(0), RInt(0)>>
        /\ result.value[1] = RInt(0)

\* C4, amended: the example trims (2,0) and then (1,0), keeps (0,0) and
\* (3,100), ends with intercept 0 and slope 100/3, centerX 200/3,
\* proportional error -200/3, and returns the steering angle -50.
C4_ExampleAsComputed ==
    ExampleReturned =>
        /\ center_line_of_best_fit = <<RInt(0), <<100, 3>>>>
        /\ positions = <<<<0, 0>>, <<3, 100>>>>
        /\ CenterX(center_line_of_best_fit, center_y) = <<200, 3>>
        /\ errors = <<<<-200, 3>>, <<100, 3>>>>
        /\ result.value = <<RInt(-50), <<-200, 3>>, <<100, 3>>>>

C4_Witness == ExampleReturned /\ passes = 3

\* the input of the latest call is a set of at least 2 different points on
\* one line plus, at index k, one point farther than the threshold from it
OutlierCase(k) ==
    /\ k \in 1..Len(center_points)
    /\ LET rest == RemoveAt(center_points, k)
       IN  /\ Len(rest) >= 2
           /\ \A i, j \in 1..Len(rest) : i # j => rest[i] # rest[j]
           /\ OnOneLine(rest)
           /\ Exceeds(CurrentDistance(line_of_best_fit(rest), center_points[k]),
                      max_distance_from_line)

OutlierRemoved(k) ==
    /\ result.value = RemoveAt(center_points, k)
    /\ center_line_of_best_fit = line_of_best_fit(RemoveAt(center_points, k))

\* C5 as stated: whenever remove_outliers returns for such an input, exactly
\* the extra point is gone and the stored line is the line of the others.
C5_OutlierAsStated ==
    PositionsReturned => \A k \in 1..Len(center_points) :
        OutlierCase(k) => OutlierRemoved(k)

\* the extra point is the earliest point of greatest residual against the
\* fit of the whole input, and that residual exceeds the threshold
OutlierIsWorst(k) ==
    /\ max_distance_from_line >= 0
    /\ IsEarliestGreatest(center_points, line_of_best_fit(center_points), k)
    /\ Exceeds(CurrentDistance(line_of_best_fit(center_points), center_points[k]),
               max_distance_from_line)

\* C5, amended: for a threshold >= 0, when the extra point is also the
\* earliest point of greatest residual against the fit of the whole input
\* and that residual exceeds the threshold, remove_outliers removes exactly
\* that point and stores the line of the others.
C5_WorstOutlierRemoved ==
    (PositionsReturned \/ result.kind = "Raised") =>
        \A k \in 1..Len(center_points) :
            (OutlierCase(k) /\ OutlierIsWorst(k)) =>
                (PositionsReturned /\ OutlierRemoved(k))

C5_Witness ==
    /\ PositionsReturned
    /\ \E k \in 1..Len(center_points) :
          /\ k > 1
          /\ OutlierCase(k)
          /\ OutlierIsWorst(k)
          /\ OutlierRemoved(k)

\* C6: for an input of at least 2 points and a threshold >= 0, every list
\* given to line_of_best_fit has at least 2 points, and so has the list the
\* call ends with.
C6_NeverBelowTwo ==
    (Len(center_points) >= 2 /\ max_distance_from_line >= 0) =>
        /\ ~fit_below_two
        /\ SteeringReturned => Len(positions) >= 2

\* what is left for the loop to do: twice the length of the working list,
\* plus one while the loop condition of line 97 still holds
LoopMeasure ==
    2 * Len(positions) + (IF Len(positions) # previous_num_positions THEN 1 ELSE 0)

\* C7: the trimming loop of a call on n >= 2 points ends, after at most n
\* passes, each pass dropping at most one point: inside the loop some step is
\* always possible, and every step either leaves the loop or lowers the
\* measure, which is never negative.
C7_LoopEndsWithinN ==
    /\ [](Len(center_points) >= 2 => passes <= Len(center_points))
    /\ [](pc = "loop" =>
            \/ Len(positions) # previous_num_positions
            \/ caller = "direct")
    /\ [][pc = "loop" =>
            /\ pc' = "idle" \/ LoopMeasure' < LoopMeasure
            /\ Len(positions) - 1 <= Len(positions')
            /\ Len(positions') <= Len(positions)
            /\ passes' = passes + 1 \/ pc' = "idle"]_vars

\* C8: the two gains, the threshold and the limit are non-negative in every
\* state of the engine.
C8_TuningNonNegative ==
    /\ proportional_multiplier >= 0
    /\ derivative_multiplier >= 0
    /\ max_distance_from_line >= 0
    /\ steering_limit >= 0

\* C9: a pass over a non-empty working list removes a point exactly when the
\* greatest residual against the line fitted in that pass is strictly above
\* the threshold; it then removes one point, the earliest of greatest
\* residual, and keeps the order of the others.
C9_OneWorstPointPerPass ==
    [][(passes' = passes + 1 /\ positions # <<>>) =>
          \E k \in 1..Len(positions) :
              /\ center_line_of_best_fit' = line_of_best_fit(positions)
              /\ IsEarliestGreatest(positions, center_line_of_best_fit', k)
              /\ IF Exceeds(CurrentDistance(center_line_of_best_fit', positions[k]),
                            max_distance_from_line)
                 THEN positions' = RemoveAt(positions, k)
                 ELSE positions' = positions]_vars

\* a first pass that met a tie for the greatest residual and removed the
\* earlier of the tied points
C9_Witness ==
    /\ pc = "loop"
    /\ passes = 1
    /\ \E k \in 1..Len(center_points) : \E j \in (k + 1)..Len(center_points) :
          LET line == line_of_best_fit(center_points)
          IN  /\ IsEarliestGreatest(center_points, line, k)
              /\ CurrentDistance(line, center_points[j]) = CurrentDistance(line, center_points[k])
              /\ center_points[j] # center_points[k]
              /\ positions = RemoveAt(center_points, k)

\* C10: when remove_outliers returns for a non-empty input, the returned
\* list is an order-preserving sub-sequence of the input, the stored line is
\* the fit of that list, no returned point is farther than the threshold
\* from the stored line, and remove_outliers on the returned list returns it
\* whole.
C10_Converged ==
    (PositionsReturned /\ center_points # <<>>) =>
        /\ IsSubsequence(result.value, center_points)
        /\ <<result.value>> = RemoveOutliersResult(center_points, max_distance_from_line)
        /\ center_line_of_best_fit = line_of_best_fit(result.value)
        /\ \A i \in 1..Len(result.value) :
              ~Exceeds(CurrentDistance(center_line_of_best_fit, result.value[i]),
                       max_distance_from_line)
        /\ RemoveOutliersResult(result.value, max_distance_from_line) = <<result.value>>

C10_Witness ==
    /\ PositionsReturned
    /\ Len(result.value) >= 2
    /\ Len(result.value) < Len(center_points)

====
